---- MODULE Spec2Model ----
(***************************************************************************)
(* Model of the device-monitoring / task-dispatch API of src/main.py:      *)
(* the in-memory DB dictionary (one active-task slot and a device list),   *)
(* the simulator update_db_states, and the four route handlers.            *)
(*                                                                         *)
(* Spec      : requests are served one after another (each handler is one  *)
(*             atomic step).                                               *)
(* SpecConc  : POST/PATCH handlers run in worker threads (FastAPI runs     *)
(*             plain "def" routes in a thread pool); every access to       *)
(*             DB["active_task"] is one step of the thread that makes it.  *)
(* SpecLive  : a client that creates a task and then only polls, with weak *)
(*             fairness on the polling requests.                           *)
(*                                                                         *)
(* The Chinese labels of the source are written as ASCII identifiers:      *)
(*   devices  "机器人" robot, "设备1".."设备4" device1..device4            *)
(*   statuses "空闲" idle, "运行中" running, "故障" fault                  *)
(*   steps    "等待指令" wait_command, "抓取物料" grab_material,           *)
(*            "移动至设备1" move_to_device1, "执行加工" process,           *)
(*            "移动至设备2" move_to_device2, "放置物料" place_material,    *)
(*            "任务完成" task_done, "开始" start                           *)
(* Device values (one decimal in the source) are kept in tenths.           *)
(***************************************************************************)
EXTENDS Integers, Sequences, FiniteSets, TLC

\* ---------------------------------------------------------------- bounds
\* number of task ids uuid.uuid4() hands out before the model stops creating
MaxTasks == 2
\* largest value of a task's elapsed counters the model follows
MaxTime == 1
\* number of worker threads serving requests concurrently (SpecConc)
NumThreads == 2
\* number of devices whose status one call of update_db_states changes
MaxChanged == 1
\* number of devices whose status one call changes when the handlers run in
\* threads (SpecTick)
MaxChangedConc == 0

\* ------------------------------------------------------- program constants
\* Python's None
None == [none |-> TRUE]

\* TaskState members
PAUSED == "paused"
STOPPED == "stopped"
RUNNING == "running"
TaskState == {PAUSED, STOPPED, RUNNING}

TASK_STEPS ==
  <<"wait_command", "grab_material", "move_to_device1", "process",
    "move_to_device2", "place_material", "task_done">>

\* the statuses dict of update_db_states: status -> type
statuses ==
  [k \in {"idle", "running", "fault"} |->
     CASE k = "idle" -> "success"
       [] k = "running" -> "info"
       [] k = "fault" -> "error"]

\* DB["devices"] as constructed
InitDevices ==
  << [name |-> "robot",   status |-> "idle", type |-> "success", value |-> 105],
     [name |-> "device1", status |-> "idle", type |-> "success", value |-> 52],
     [name |-> "device2", status |-> "idle", type |-> "success", value |-> 0],
     [name |-> "device3", status |-> "idle", type |-> "success", value |-> 12],
     [name |-> "device4", status |-> "idle", type |-> "success", value |-> 5] >>

\* ------------------------------------------------------------ input sets
\* values round(random.uniform(0, 100), 1) is followed for (tenths)
UtilSamples == {755}
\* batch numbers random.randint(202500, 202599) is followed for
MaterialSamples == {202533}
\* request bodies of POST /api/v1/tasks/ ("" violates min_length=1,
\* "device9" is no registered device)
TaskNames == {"", "carry_A"}
TargetDevices == {"device1", "device9"}
TaskCreate ==
  [task_name : TaskNames, target_device : TargetDevices, params : {5}]
\* path parameter of PATCH: every id the model can issue, and 0, never issued
TaskIds == 0..MaxTasks

VARIABLES
  DB,          \* the DB dictionary: active_task (None or a task), devices
  uuid_count,  \* number of ids uuid.uuid4() has produced
  resp,        \* the response of the request served last (Spec)
  threads      \* per worker thread: position and locals (SpecConc)

vars == <<DB, uuid_count, resp, threads>>

Thread == 1..NumThreads

\* a thread between requests: op, code and body are the request it served
\* last and its response; task, task_id and state_update are the parameters
\* of the request being served, local is new_task / stopped_task
IdleThread ==
  [pc |-> "idle", op |-> "none", code |-> 0, body |-> None,
   task |-> None, task_id |-> 0, state_update |-> "none", local |-> None]

\* a response: the route, the status code and, for a 2xx, the body (the
\* detail strings of the error responses are left out)
Response(op, code, body) == [op |-> op, code |-> code, body |-> body]

Init ==
  /\ DB = [active_task |-> None, devices |-> InitDevices]
  /\ uuid_count = 0
  /\ resp = Response("none", 0, None)
  /\ threads = [t \in Thread |-> IdleThread]

\* ------------------------------------------------------ update_db_states
\* mutant of update_device: the key drawn is stored under "name"
update_device_renames(device, change, key, value) ==
  IF change
  THEN [device EXCEPT !.name = key, !.type = statuses[key], !.value = value]
  ELSE [device EXCEPT !.value = value]

\* lines 75-81: one device after the random draws: change says that the 20%
\* branch was taken and drew the status key, value is the utilisation drawn
\* (for every device)
update_device(device, change, key, value) ==
  IF change
  THEN [device EXCEPT !.status = key, !.type = statuses[key], !.value = value]
  ELSE [device EXCEPT !.value = value]

\* the random draws of one call of update_db_states that differ in effect:
\* the devices whose status changes (branch taken and another key drawn; a
\* branch that draws the key the device has acts like a branch not taken),
\* the key drawn for each, and the value drawn for each device
Draws(devices) ==
  UNION { { [changed |-> c, keys |-> k, values |-> v] :
              k \in { f \in [c -> DOMAIN statuses] :
                        \A i \in c : f[i] # devices[i].status },
              v \in [DOMAIN devices -> UtilSamples] } :
          c \in { x \in SUBSET DOMAIN devices : Cardinality(x) <= MaxChanged } }

\* mutant of update_task_time: the state of the task is not looked at
update_task_time_ignores_state(task) ==
  IF task # None
  THEN [task EXCEPT !.total_time = @ + 1, !.step_time = @ + 1]
  ELSE task

\* lines 84-86: the active task after one call of update_db_states
update_task_time(task) ==
  IF task # None /\ task.state = RUNNING
  THEN [task EXCEPT !.total_time = @ + 1, !.step_time = @ + 1]
  ELSE task

\* the counters of the task stay within what the model follows
TimeInBound(task) ==
  task # None /\ task.state = RUNNING => task.total_time < MaxTime

update_db_states(db, draw) ==
  [active_task |-> update_task_time(db.active_task),
   devices |-> [i \in DOMAIN db.devices |->
                  update_device(db.devices[i], i \in draw.changed,
                                IF i \in draw.changed THEN draw.keys[i]
                                ELSE db.devices[i].status,
                                draw.values[i])]]

\* -------------------------------------------------------------- handlers
\* mutant of HasActiveTask: a paused task does not count as active
HasActiveTask_running_only(db) ==
  db.active_task # None /\ db.active_task.state = RUNNING

\* truthiness of DB["active_task"] (lines 112 and 123)
HasActiveTask(db) == db.active_task # None

\* GET /api/v1/devices/
get_all_devices ==
  /\ TimeInBound(DB.active_task)
  /\ \E draw \in Draws(DB.devices) :
       /\ DB' = update_db_states(DB, draw)
       /\ resp' = Response("get_all_devices", 200, DB'.devices)
  /\ UNCHANGED <<uuid_count, threads>>

\* mutant of active_task_response: a paused task is reported as missing
active_task_response_hides_paused(db) ==
  IF db.active_task # None /\ db.active_task.state = RUNNING
  THEN Response("get_active_task", 200, db.active_task)
  ELSE Response("get_active_task", 404, None)

\* lines 112-114: what get_active_task answers on the (updated) DB
active_task_response(db) ==
  IF HasActiveTask(db)
  THEN Response("get_active_task", 200, db.active_task)
  ELSE Response("get_active_task", 404, None)

\* GET /api/v1/tasks/active/
get_active_task ==
  /\ TimeInBound(DB.active_task)
  /\ \E draw \in Draws(DB.devices) :
       /\ DB' = update_db_states(DB, draw)
       /\ resp' = active_task_response(DB')
  /\ UNCHANGED <<uuid_count, threads>>

\* TaskCreate: task_name has min_length=1 (target_device is any string)
TaskCreateValid(task) == task.task_name # ""

\* mutant of NewTask: the step pointers start one position early
NewTask_first_step(id, task, material) ==
  [task_id |-> id,
   task_name |-> task.task_name,
   target_device |-> task.target_device,
   material_info |-> material,
   prev_step |-> "start",
   current_step |-> TASK_STEPS[1],
   next_step |-> TASK_STEPS[2],
   total_time |-> 0,
   step_time |-> 0,
   state |-> RUNNING]

\* mutant of NewTask: every task gets the id of the first one
NewTask_reuses_id(id, task, material) ==
  [task_id |-> 1,
   task_name |-> task.task_name,
   target_device |-> task.target_device,
   material_info |-> material,
   prev_step |-> "start",
   current_step |-> TASK_STEPS[2],
   next_step |-> TASK_STEPS[3],
   total_time |-> 0,
   step_time |-> 0,
   state |-> RUNNING]

\* lines 126-137: the new_task dictionary; id is the uuid drawn, material
\* the batch number drawn
NewTask(id, task, material) ==
  [task_id |-> id,
   task_name |-> task.task_name,
   target_device |-> task.target_device,
   material_info |-> material,
   prev_step |-> "start",
   current_step |-> TASK_STEPS[2],
   next_step |-> TASK_STEPS[3],
   total_time |-> 0,
   step_time |-> 0,
   state |-> RUNNING]

\* POST /api/v1/tasks/
create_task(task) ==
  IF ~TaskCreateValid(task)
  THEN /\ resp' = Response("create_task", 422, None)
       /\ UNCHANGED <<DB, uuid_count, threads>>
  ELSE IF HasActiveTask(DB)
  THEN /\ resp' = Response("create_task", 409, None)
       /\ UNCHANGED <<DB, uuid_count, threads>>
  ELSE /\ uuid_count < MaxTasks
       /\ uuid_count' = uuid_count + 1
       /\ \E material \in MaterialSamples :
            DB' = [DB EXCEPT !.active_task =
                     NewTask(uuid_count', task, material)]
       /\ resp' = Response("create_task", 201, DB'.active_task)
       /\ UNCHANGED threads

\* TaskStateUpdate.check_state: only paused and stopped pass validation
check_state(state) == state \in {PAUSED, STOPPED}

\* mutant of TaskNotFound: the task_id of the request is not compared
TaskNotFound_ignores_id(db, task_id) == db.active_task = None

\* line 149: the guard of update_task_state
TaskNotFound(db, task_id) ==
  db.active_task = None \/ db.active_task.task_id # task_id

\* mutant of paused_task: a pause of a Paused task resumes it
paused_task_toggles(task) ==
  [task EXCEPT !.state = IF @ = PAUSED THEN RUNNING ELSE PAUSED]

\* line 153: the active task after a pause
paused_task(task) == [task EXCEPT !.state = PAUSED]

\* mutant of stopped_task: the copy keeps the state the task had
stopped_task_keeps_state(task) == task

\* lines 156-157: the copy a stop returns
stopped_task(task) == [task EXCEPT !.state = STOPPED]

\* mutant of slot_after_stop: the task is marked stopped and stays
slot_after_stop_keeps_task(task) == [task EXCEPT !.state = STOPPED]

\* line 158: what a stop leaves in the slot
slot_after_stop(task) == None

\* PATCH /api/v1/tasks/{task_id}/state/
update_task_state(task_id, state_update) ==
  IF ~check_state(state_update)
  THEN /\ resp' = Response("update_task_state", 422, None)
       /\ UNCHANGED <<DB, uuid_count, threads>>
  ELSE IF TaskNotFound(DB, task_id)
  THEN /\ resp' = Response("update_task_state", 404, None)
       /\ UNCHANGED <<DB, uuid_count, threads>>
  ELSE IF state_update = PAUSED
  THEN /\ DB' = [DB EXCEPT !.active_task = paused_task(@)]
       /\ resp' = Response("update_task_state", 200, DB'.active_task)
       /\ UNCHANGED <<uuid_count, threads>>
  ELSE /\ DB' = [DB EXCEPT !.active_task = slot_after_stop(@)]
       /\ resp' = Response("update_task_state", 200,
                           stopped_task(DB.active_task))
       /\ UNCHANGED <<uuid_count, threads>>

Next ==
  \/ get_all_devices
  \/ get_active_task
  \/ \E task \in TaskCreate : create_task(task)
  \/ \E task_id \in TaskIds, state_update \in TaskState :
       update_task_state(task_id, state_update)

Spec == Init /\ [][Next]_vars

\* ---------------------------------------------------- handlers in threads
\* Each step is one statement of a handler as far as it touches the DB: the
\* interpreter may switch threads between any two of them.
Reply(op, code, body) ==
  [IdleThread EXCEPT !.op = op, !.code = code, !.body = body]

\* request validation of POST, before create_task runs
begin_create_task(t, task) ==
  /\ threads[t].pc = "idle"
  /\ threads' = [threads EXCEPT ![t] =
       IF TaskCreateValid(task)
       THEN [IdleThread EXCEPT !.pc = "create_task_123", !.op = "create_task",
                               !.task = task]
       ELSE Reply("create_task", 422, None)]
  /\ UNCHANGED <<DB, uuid_count, resp>>

\* lines 123-137: the check of the slot, then the new_task dictionary
create_task_check(t) ==
  /\ threads[t].pc = "create_task_123"
  /\ IF HasActiveTask(DB)
     THEN /\ threads' = [threads EXCEPT ![t] = Reply("create_task", 409, None)]
          /\ UNCHANGED <<DB, uuid_count, resp>>
     ELSE /\ uuid_count < MaxTasks
          /\ uuid_count' = uuid_count + 1
          /\ \E material \in MaterialSamples :
               threads' = [threads EXCEPT ![t].pc = "create_task_138",
                 ![t].local = NewTask(uuid_count', threads[t].task, material)]
          /\ UNCHANGED <<DB, resp>>

\* lines 138-139: the write of the slot and the 201
create_task_write(t) ==
  /\ threads[t].pc = "create_task_138"
  /\ DB' = [DB EXCEPT !.active_task = threads[t].local]
  /\ threads' = [threads EXCEPT ![t] =
                   Reply("create_task", 201, threads[t].local)]
  /\ UNCHANGED <<uuid_count, resp>>

\* request validation of PATCH, before update_task_state runs
begin_update_task_state(t, task_id, state_update) ==
  /\ threads[t].pc = "idle"
  /\ threads' = [threads EXCEPT ![t] =
       IF check_state(state_update)
       THEN [IdleThread EXCEPT !.pc = "update_task_state_149",
                               !.op = "update_task_state",
                               !.task_id = task_id,
                               !.state_update = state_update]
       ELSE Reply("update_task_state", 422, None)]
  /\ UNCHANGED <<DB, uuid_count, resp>>

\* line 149, left operand: not DB["active_task"]
update_task_state_check_slot(t) ==
  /\ threads[t].pc = "update_task_state_149"
  /\ threads' = [threads EXCEPT ![t] =
       IF DB.active_task = None
       THEN Reply("update_task_state", 404, None)
       ELSE [threads[t] EXCEPT !.pc = "update_task_state_149_id"]]
  /\ UNCHANGED <<DB, uuid_count, resp>>

\* line 149, right operand: DB["active_task"]["task_id"] != task_id reads
\* the slot again; subscripting None raises TypeError (a 500)
update_task_state_check_id(t) ==
  /\ threads[t].pc = "update_task_state_149_id"
  /\ threads' = [threads EXCEPT ![t] =
       IF DB.active_task = None
       THEN Reply("update_task_state", 500, None)
       ELSE IF TaskNotFound(DB, threads[t].task_id)
       THEN Reply("update_task_state", 404, None)
       ELSE [threads[t] EXCEPT !.pc =
               IF threads[t].state_update = PAUSED
               THEN "update_task_state_153" ELSE "update_task_state_156"]]
  /\ UNCHANGED <<DB, uuid_count, resp>>

\* line 153: DB["active_task"]["state"] = PAUSED, on the task the slot holds
\* now
update_task_state_pause(t) ==
  /\ threads[t].pc = "update_task_state_153"
  /\ IF DB.active_task = None
     THEN /\ threads' = [threads EXCEPT ![t] =
                          Reply("update_task_state", 500, None)]
          /\ UNCHANGED DB
     ELSE /\ DB' = [DB EXCEPT !.active_task = paused_task(@)]
          /\ threads' = [threads EXCEPT ![t].pc = "update_task_state_154"]
  /\ UNCHANGED <<uuid_count, resp>>

\* line 154: return DB["active_task"]; None fails the response model (a 500)
update_task_state_return(t) ==
  /\ threads[t].pc = "update_task_state_154"
  /\ threads' = [threads EXCEPT ![t] =
       IF DB.active_task = None
       THEN Reply("update_task_state", 500, None)
       ELSE Reply("update_task_state", 200, DB.active_task)]
  /\ UNCHANGED <<DB, uuid_count, resp>>

\* lines 156-157: DB["active_task"].copy(); None has no copy (a 500)
update_task_state_copy(t) ==
  /\ threads[t].pc = "update_task_state_156"
  /\ threads' = [threads EXCEPT ![t] =
       IF DB.active_task = None
       THEN Reply("update_task_state", 500, None)
       ELSE [threads[t] EXCEPT !.pc = "update_task_state_158",
                               !.local = stopped_task(DB.active_task)]]
  /\ UNCHANGED <<DB, uuid_count, resp>>

\* lines 158-159: the slot is emptied and the copy returned
update_task_state_evict(t) ==
  /\ threads[t].pc = "update_task_state_158"
  /\ DB' = [DB EXCEPT !.active_task = slot_after_stop(@)]
  /\ threads' = [threads EXCEPT ![t] =
                   Reply("update_task_state", 200, threads[t].local)]
  /\ UNCHANGED <<uuid_count, resp>>

NextConc ==
  \E t \in Thread :
    \/ \E task \in TaskCreate : begin_create_task(t, task)
    \/ create_task_check(t)
    \/ create_task_write(t)
    \/ \E task_id \in TaskIds, state_update \in TaskState :
         begin_update_task_state(t, task_id, state_update)
    \/ update_task_state_check_slot(t)
    \/ update_task_state_check_id(t)
    \/ update_task_state_pause(t)
    \/ update_task_state_return(t)
    \/ update_task_state_copy(t)
    \/ update_task_state_evict(t)

SpecConc == Init /\ [][NextConc]_vars

\* ------------------------------------------- GET active task in threads
\* the draws of one call that change the status of at most MaxChangedConc
\* devices
DrawsConc(devices) ==
  { draw \in Draws(devices) : Cardinality(draw.changed) <= MaxChangedConc }

\* lines 109 and 75-81: the handler calls update_db_states, whose loop
\* rewrites the devices
begin_get_active_task(t) ==
  /\ threads[t].pc = "idle"
  /\ TimeInBound(DB.active_task)
  /\ \E draw \in DrawsConc(DB.devices) :
       DB' = [DB EXCEPT !.devices = update_db_states(DB, draw).devices]
  /\ threads' = [threads EXCEPT ![t] =
       [IdleThread EXCEPT !.pc = "update_db_states_84",
                          !.op = "get_active_task"]]
  /\ UNCHANGED <<uuid_count, resp>>

\* line 84, left operand: DB["active_task"]
update_db_states_check_slot(t) ==
  /\ threads[t].pc = "update_db_states_84"
  /\ threads' = [threads EXCEPT ![t].pc =
       IF DB.active_task = None
       THEN "get_active_task_112" ELSE "update_db_states_84_state"]
  /\ UNCHANGED <<DB, uuid_count, resp>>

\* line 84, right operand: DB["active_task"]["state"] == RUNNING reads the
\* slot again; subscripting None raises TypeError (a 500)
update_db_states_check_state(t) ==
  /\ threads[t].pc = "update_db_states_84_state"
  /\ threads' = [threads EXCEPT ![t] =
       IF DB.active_task = None
       THEN Reply("get_active_task", 500, None)
       ELSE [threads[t] EXCEPT !.pc =
               IF DB.active_task.state = RUNNING
               THEN "update_db_states_85" ELSE "get_active_task_112"]]
  /\ UNCHANGED <<DB, uuid_count, resp>>

\* line 85, the load of DB["active_task"]["total_time"] += 1: the thread
\* holds the dictionary of the task (known by its task_id) and the value read
update_db_states_load_total_time(t) ==
  /\ threads[t].pc = "update_db_states_85"
  /\ threads' = [threads EXCEPT ![t] =
       IF DB.active_task = None
       THEN Reply("get_active_task", 500, None)
       ELSE [threads[t] EXCEPT !.pc = "update_db_states_85_store",
               !.local = [task_id |-> DB.active_task.task_id,
                          value |-> DB.active_task.total_time]]]
  /\ UNCHANGED <<DB, uuid_count, resp>>

\* line 85, the store: value read + 1 goes into the dictionary the thread
\* holds; a dictionary no longer in the slot is seen by nobody
update_db_states_store_total_time(t) ==
  /\ threads[t].pc = "update_db_states_85_store"
  /\ DB' = IF DB.active_task # None
              /\ DB.active_task.task_id = threads[t].local.task_id
           THEN [DB EXCEPT !.active_task.total_time = threads[t].local.value + 1]
           ELSE DB
  /\ threads' = [threads EXCEPT ![t].pc = "update_db_states_86",
                                ![t].local = None]
  /\ UNCHANGED <<uuid_count, resp>>

\* line 86, the load of DB["active_task"]["step_time"] += 1
update_db_states_load_step_time(t) ==
  /\ threads[t].pc = "update_db_states_86"
  /\ threads' = [threads EXCEPT ![t] =
       IF DB.active_task = None
       THEN Reply("get_active_task", 500, None)
       ELSE [threads[t] EXCEPT !.pc = "update_db_states_86_store",
               !.local = [task_id |-> DB.active_task.task_id,
                          value |-> DB.active_task.step_time]]]
  /\ UNCHANGED <<DB, uuid_count, resp>>

\* line 86, the store
update_db_states_store_step_time(t) ==
  /\ threads[t].pc = "update_db_states_86_store"
  /\ DB' = IF DB.active_task # None
              /\ DB.active_task.task_id = threads[t].local.task_id
           THEN [DB EXCEPT !.active_task.step_time = threads[t].local.value + 1]
           ELSE DB
  /\ threads' = [threads EXCEPT ![t].pc = "get_active_task_112",
                                ![t].local = None]
  /\ UNCHANGED <<uuid_count, resp>>

\* lines 112-113: if not DB["active_task"]: 404
get_active_task_check(t) ==
  /\ threads[t].pc = "get_active_task_112"
  /\ threads' = [threads EXCEPT ![t] =
       IF DB.active_task = None
       THEN Reply("get_active_task", 404, None)
       ELSE [threads[t] EXCEPT !.pc = "get_active_task_114"]]
  /\ UNCHANGED <<DB, uuid_count, resp>>

\* line 114: return DB["active_task"]; None fails the response model (a 500)
get_active_task_return(t) ==
  /\ threads[t].pc = "get_active_task_114"
  /\ threads' = [threads EXCEPT ![t] =
       IF DB.active_task = None
       THEN Reply("get_active_task", 500, None)
       ELSE Reply("get_active_task", 200, DB.active_task)]
  /\ UNCHANGED <<DB, uuid_count, resp>>

NextTick ==
  \/ NextConc
  \/ \E t \in Thread :
       \/ begin_get_active_task(t)
       \/ update_db_states_check_slot(t)
       \/ update_db_states_check_state(t)
       \/ update_db_states_load_total_time(t)
       \/ update_db_states_store_total_time(t)
       \/ update_db_states_load_step_time(t)
       \/ update_db_states_store_step_time(t)
       \/ get_active_task_check(t)
       \/ get_active_task_return(t)

SpecTick == Init /\ [][NextTick]_vars

\* ------------------------------------------------------- a polling client
\* lines 84-86 with the counters abstracted: a counter at MaxTime stands for
\* every value from MaxTime on, so that polling can go on for ever
update_task_time_abstract(task) ==
  IF task # None /\ task.state = RUNNING /\ task.total_time >= MaxTime
  THEN task
  ELSE update_task_time(task)

\* GET /api/v1/tasks/active/ on the abstracted counters
poll_active_task ==
  /\ \E draw \in Draws(DB.devices) :
       /\ DB' = [update_db_states(DB, draw) EXCEPT
                   !.active_task = update_task_time_abstract(DB.active_task)]
       /\ resp' = active_task_response(DB')
  /\ UNCHANGED <<uuid_count, threads>>

\* the client creates a task and polls it; it never pauses or stops it
NextLive ==
  \/ \E task \in TaskCreate : create_task(task)
  \/ poll_active_task

\* the client keeps polling: every poll ticks the task
SpecLive == Init /\ [][NextLive]_vars /\ WF_vars(poll_active_task)

\* ------------------------------------------------- claims, checked on Spec
\* the response of a stop that succeeded
StopSucceeded(r) ==
  r.op = "update_task_state" /\ r.code = 200 /\ r.body.state = STOPPED

\* C1: a well-formed create_task served while a task occupies the slot
\* (Running or Paused) answers 409 and changes nothing: the slot keeps the
\* same task with the same fields, no id is drawn, the devices are the same.
C1_CreateWhileActiveConflicts ==
  [][(resp'.op = "create_task" /\ DB.active_task # None)
       => \A task \in TaskCreate :
            (TaskCreateValid(task) /\ create_task(task))
              => /\ resp' = Response("create_task", 409, None)
                 /\ DB' = DB
                 /\ uuid_count' = uuid_count]_vars

C1_Witness ==
  /\ resp.op = "create_task" /\ resp.code = 409
  /\ DB.active_task # None /\ DB.active_task.state = PAUSED

\* C3: a pause answers success only if the task was Running when it was
\* served (of several pauses of one task only the first succeeds).
C3_PauseSucceedsOnlyFromRunning ==
  [][(resp'.op = "update_task_state" /\ resp'.code = 200)
       => \A task_id \in TaskIds :
            update_task_state(task_id, PAUSED)
              => (DB.active_task # None /\ DB.active_task.state = RUNNING)]_vars

\* C4: a stop that succeeded leaves the slot empty, and a second stop of the
\* same task id served right after it answers 404 and leaves the DB (empty
\* slot, devices) as the first one left it.
C4_SecondStopNotFound ==
  /\ [](StopSucceeded(resp) => DB.active_task = None)
  /\ [][(StopSucceeded(resp) /\ resp'.op = "update_task_state"
          /\ update_task_state(resp.body.task_id, STOPPED))
         => /\ resp' = Response("update_task_state", 404, None)
            /\ DB' = DB
            /\ DB'.active_task = None
            /\ uuid_count' = uuid_count]_vars

C4_Witness ==
  /\ resp.op = "update_task_state" /\ resp.code = 404
  /\ uuid_count > 0
  /\ DB.active_task = None

\* C5: a stop carrying the active task's id, served while the task is Running
\* or Paused, answers 200 with the task as it was but with state Stopped,
\* empties the slot and leaves the devices; right after it GET active-task
\* answers 404 and a well-formed create_task answers 201.
C5_StopReturnsSnapshotAndEvicts ==
  /\ [][(resp'.op = "update_task_state" /\ DB.active_task # None)
          => \A task_id \in TaskIds :
               (DB.active_task.task_id = task_id
                /\ update_task_state(task_id, STOPPED))
                 => /\ resp'.code = 200
                    /\ resp'.body = [DB.active_task EXCEPT !.state = STOPPED]
                    /\ DB'.active_task = None
                    /\ DB'.devices = DB.devices]_vars
  /\ [][(StopSucceeded(resp) /\ resp'.op = "get_active_task")
          => resp'.code = 404]_vars
  /\ [][(resp'.op = "create_task" /\ StopSucceeded(resp))
          => \A task \in TaskCreate :
               (TaskCreateValid(task) /\ create_task(task))
                 => (resp'.code = 201 /\ DB'.active_task.state = RUNNING)]_vars

C5_Witness ==
  /\ resp.op = "create_task" /\ resp.code = 201
  /\ resp.body.task_id = 2
  /\ DB.active_task = resp.body

\* C6: GET active-task served right after a create_task that answered 201
\* answers 200 with that task: same task_id, task_name and target_device,
\* state Running, current_step the second element of TASK_STEPS.
C6_CreateThenGetRoundTrip ==
  [][(resp.op = "create_task" /\ resp.code = 201
      /\ resp'.op = "get_active_task")
       => /\ resp'.code = 200
          /\ resp'.body.task_id = resp.body.task_id
          /\ resp'.body.task_name = resp.body.task_name
          /\ resp'.body.target_device = resp.body.target_device
          /\ resp'.body.state = RUNNING
          /\ resp'.body.current_step = TASK_STEPS[2]]_vars

C6_Witness ==
  /\ resp.op = "get_active_task" /\ resp.code = 200
  /\ resp.body.state = RUNNING /\ resp.body.total_time = 1
  /\ resp.body.current_step = "grab_material"

\* C7: a pause or stop whose task_id is not the active task's id, or that is
\* served while the slot is empty, answers 404 and leaves the DB unchanged.
C7_WrongIdNotFound ==
  [][resp'.op = "update_task_state"
       => \A task_id \in TaskIds, state_update \in {PAUSED, STOPPED} :
            ((DB.active_task = None \/ DB.active_task.task_id # task_id)
             /\ update_task_state(task_id, state_update))
              => /\ resp' = Response("update_task_state", 404, None)
                 /\ DB' = DB]_vars

C7_Witness ==
  /\ resp.op = "update_task_state" /\ resp.code = 404
  /\ DB.active_task # None
  /\ DB.active_task.state = PAUSED
  /\ DB.active_task.total_time > 0

\* C9: while one task stays in the slot, a step that serves a GET request
\* (the requests that tick) on a Running task adds 1 to total_time and 1 to
\* step_time; every other step leaves both counters as they are, and a
\* Paused task stays Paused, so its counters are frozen until it is stopped.
C9_TickOnlyWhileRunning ==
  [][(DB.active_task # None /\ DB'.active_task # None
      /\ DB'.active_task.task_id = DB.active_task.task_id)
       => IF resp'.op \in {"get_all_devices", "get_active_task"}
             /\ DB.active_task.state = RUNNING
          THEN /\ DB'.active_task.total_time = DB.active_task.total_time + 1
               /\ DB'.active_task.step_time = DB.active_task.step_time + 1
          ELSE /\ DB'.active_task.total_time = DB.active_task.total_time
               /\ DB'.active_task.step_time = DB.active_task.step_time
               /\ (DB.active_task.state = PAUSED
                     => DB'.active_task.state = PAUSED)]_vars

C9_Witness ==
  /\ resp.op = "get_active_task" /\ resp.code = 200
  /\ resp.body.state = PAUSED
  /\ resp.body.total_time = 1 /\ resp.body.step_time = 1

\* C10: GET active-task answers 404 exactly when the slot is empty and
\* otherwise 200 with the task stored in the slot; the task in the slot is
\* Running or Paused in every reachable state.
C10_GetActiveTaskOutcome ==
  /\ [](DB.active_task # None => DB.active_task.state \in {RUNNING, PAUSED})
  /\ [][resp'.op = "get_active_task"
         => /\ (resp'.code = 404) = (DB.active_task = None)
            /\ (resp'.code = 404) = (DB'.active_task = None)
            /\ resp'.code \in {200, 404}
            /\ (resp'.code = 200 => resp'.body = DB'.active_task)]_vars

C10_Witness ==
  /\ resp.op = "get_active_task" /\ resp.code = 200
  /\ resp.body.state = PAUSED /\ resp.body.task_id = 2
  /\ DB.active_task = resp.body

\* ---------------------------------------------- claims, checked on SpecConc
\* C2: of create_task requests served concurrently only one answers 201: a
\* create_task answers 201 only if the slot is empty when it writes it, so a
\* request that overlaps one that created a task answers 409.
C2_OneConcurrentCreateWins ==
  [][\A t \in Thread :
       (create_task_write(t) /\ threads'[t].code = 201)
         => DB.active_task = None]_vars

\* ---------------------------------------------- claims, checked on SpecLive
\* C8: a task that is created, never paused or stopped and ticked again and
\* again eventually completes and leaves the slot, so that GET active-task
\* answers 404.
C8_TickedTaskCompletes ==
  (DB.active_task # None)
    ~> (resp.op = "get_active_task" /\ resp.code = 404)

\* ------------------------------------------- claims on the devices (Spec)
\* the names of a device list, in its order
DeviceNames(devices) == [i \in DOMAIN devices |-> devices[i].name]

\* C11: the device list always holds exactly the devices registered at
\* construction, each name once, in the registration order, and so does the
\* body of every GET devices response; a device keeps its four fields.
C11_DeviceSetClosedAndOrdered ==
  /\ DeviceNames(DB.devices) = DeviceNames(InitDevices)
  /\ \A i, j \in DOMAIN DB.devices :
       DB.devices[i].name = DB.devices[j].name => i = j
  /\ \A i \in DOMAIN DB.devices :
       DOMAIN DB.devices[i] = {"name", "status", "type", "value"}
  /\ (resp.op = "get_all_devices"
       => DeviceNames(resp.body) = DeviceNames(InitDevices))

C11_Witness ==
  /\ resp.op = "get_all_devices"
  /\ DB.active_task # None
  /\ \E i \in DOMAIN resp.body :
       /\ resp.body[i].status = "fault"
       /\ resp.body[i].value # InitDevices[i].value

\* C12: GET devices has no side effects: the DB after the request is the DB
\* before it (devices and active task).
C12_ListDevicesHasNoSideEffects ==
  [][resp'.op = "get_all_devices" => DB' = DB]_vars

\* C13: no task is ever created for a target_device that is not the name of
\* a registered device.
C13_UnknownTargetDeviceRejected ==
  DB.active_task # None
    => \E i \in DOMAIN DB.devices :
         DB.devices[i].name = DB.active_task.target_device

\* ------------------------------------------- claims on the steps (Spec)
\* C14 as stated: the task returned by a successful create has current_step
\* and next_step on the first two steps of TASK_STEPS, both counters zero
\* and state Running.
C14_CreatedTaskOnFirstTwoSteps ==
  (resp.op = "create_task" /\ resp.code = 201)
    => /\ resp.body.current_step = TASK_STEPS[1]
       /\ resp.body.next_step = TASK_STEPS[2]
       /\ resp.body.total_time = 0
       /\ resp.body.step_time = 0
       /\ resp.body.state = RUNNING

\* C14 amended: the task returned by a successful create has current_step on
\* the second and next_step on the third step of TASK_STEPS, both counters
\* zero and state Running.
C14_CreatedTaskOnSecondAndThirdStep ==
  (resp.op = "create_task" /\ resp.code = 201)
    => /\ resp.body.current_step = TASK_STEPS[2]
       /\ resp.body.next_step = TASK_STEPS[3]
       /\ resp.body.total_time = 0
       /\ resp.body.step_time = 0
       /\ resp.body.state = RUNNING

C14_Witness ==
  /\ resp.op = "create_task"
  /\ resp.code = 201
  /\ resp.body.task_id = MaxTasks
  /\ resp.body.target_device = "device1"

\* app.py line 27: the step list of the front end (the same seven labels)
TASK_STEPS_app == TASK_STEPS

\* element i of a Python list (positions from 0)
At(list, i) == list[i + 1]

\* the draws of get_current_task_status: random.randint(1, len - 2),
\* random.randint(30, 300) at its ends, random.randint(5, total_seconds or
\* 6) at its ends, a batch number
StepIndexes == 1 .. (Len(TASK_STEPS_app) - 2)
TotalSeconds == {30, 300}
StepSeconds(total_seconds) == {5, IF total_seconds > 5 THEN total_seconds ELSE 6}

\* app.py lines 29-46: the task the front end shows; no_task is the 20% draw
get_current_task_status(no_task, current_step_index, total_seconds, step_seconds, material) ==
  IF no_task
  THEN None
  ELSE [material_info |-> material,
        prev_step |-> At(TASK_STEPS_app, current_step_index - 1),
        current_step |-> At(TASK_STEPS_app, current_step_index),
        next_step |-> At(TASK_STEPS_app, current_step_index + 1),
        total_time |-> total_seconds,
        step_time |-> step_seconds]

\* prev, current and next are three consecutive labels of steps
ConsecutiveSteps(task, steps) ==
  \E i \in 2 .. (Len(steps) - 1) :
    /\ task.prev_step = steps[i - 1]
    /\ task.current_step = steps[i]
    /\ task.next_step = steps[i + 1]

\* C15: every task a client can see, the task in the slot of main.py and
\* every task get_current_task_status of app.py produces, has prev_step,
\* current_step and next_step on three consecutive positions of TASK_STEPS.
C15_StepsAreConsecutiveLabels ==
  /\ DB.active_task # None => ConsecutiveSteps(DB.active_task, TASK_STEPS)
  /\ \A no_task \in BOOLEAN, current_step_index \in StepIndexes,
        total_seconds \in TotalSeconds, material \in MaterialSamples :
       \A step_seconds \in StepSeconds(total_seconds) :
         LET task == get_current_task_status(no_task, current_step_index,
                                             total_seconds, step_seconds,
                                             material)
         IN  task # None => ConsecutiveSteps(task, TASK_STEPS_app)

\* ------------------------------------ claims on states and ids (Spec)
\* C18: a state update to running is rejected by validation (422, DB
\* unchanged), and a Paused task is, after every step, still the Paused task
\* in the slot or gone from the slot; it is never Running again.
C18_PausedIsAbsorbing ==
  [][/\ (DB.active_task # None /\ DB.active_task.state = PAUSED)
          => \/ DB'.active_task = None
             \/ /\ DB'.active_task.task_id = DB.active_task.task_id
                /\ DB'.active_task.state = PAUSED
     /\ resp'.op = "update_task_state"
          => \A task_id \in TaskIds :
               update_task_state(task_id, RUNNING)
                 => /\ resp' = Response("update_task_state", 422, None)
                    /\ DB' = DB]_vars

C18_Witness ==
  /\ resp.op = "update_task_state" /\ resp.code = 422
  /\ DB.active_task # None
  /\ DB.active_task.state = PAUSED
  /\ DB.active_task.total_time = 0

\* the ids of the tasks created so far (uuid_count counts the draws)
IssuedIds == 1 .. uuid_count

C16_NoTornReadNoLostTick ==
  [][\A t \in Thread :
       /\ (get_active_task_return(t) /\ threads'[t].code = 200)
            => threads'[t].body.total_time = threads'[t].body.step_time
       /\ (update_db_states_store_total_time(t) /\ DB'.active_task # None
              /\ DB'.active_task.task_id = threads[t].local.task_id)
            => DB'.active_task.total_time = DB.active_task.total_time + 1
       /\ (update_db_states_store_step_time(t) /\ DB'.active_task # None
              /\ DB'.active_task.task_id = threads[t].local.task_id)
            => DB'.active_task.step_time = DB.active_task.step_time + 1]_vars

\* a pause of the task with this id has been answered with success
PauseReturned(task_id) ==
  \E u \in Thread :
    /\ threads[u].pc = "idle"
    /\ threads[u].op = "update_task_state"
    /\ threads[u].code = 200
    /\ threads[u].body.task_id = task_id
    /\ threads[u].body.state = PAUSED

\* the outcomes the handlers define: 200/201 success, 404 not found, 409
\* conflict, 422 rejected by validation (0: no request served yet)
DefinedOutcomes == {0, 200, 201, 404, 409, 422}

\* C17: every request ends with a defined outcome, never with the 500 of a
\* handler that subscripts, copies or returns a slot another request emptied
\* after its check, and no tick changes a counter of a task whose pause has
\* already been answered.
C17_WritersMutuallyExclusive ==
  [][\A t \in Thread :
       /\ threads'[t].code \in DefinedOutcomes
       /\ ((update_db_states_store_total_time(t)
             \/ update_db_states_store_step_time(t)) /\ DB' # DB)
            => ~PauseReturned(DB.active_task.task_id)]_vars
====
